---- MODULE Spec2Model ----
(***************************************************************************)
(* Model of src/main.py (Ira companion chat backend): the Redis-backed     *)
(* chat session store, the language detector and the send-message handler  *)
(* with its streaming generator.                                           *)
(*                                                                         *)
(* Text is a sequence of one-character strings, so that strip(), the       *)
(* whitespace regex and the key f-strings are computed, not assumed.       *)
(* Handlers are `async def` bodies over a synchronous Redis client: a      *)
(* handler runs without interruption up to its next yield/await, which is  *)
(* the grain of the actions below.  time.time() stamps ("ts", "created")   *)
(* are not modelled: no control flow reads them.                           *)
(***************************************************************************)
EXTENDS Integers, Sequences, FiniteSets, TLC

\* ---------------------------------------------------------------- bounds
MaxChunks == 2      \* provider chunks of the streaming workload
MaxChats == 2       \* create_chat_for_user calls of the chat-list workload
ContextDefault == 2 \* MAX_CONTEXT of the deployment under Spec (20 in .env default)
ContextMax == 2     \* largest MAX_CONTEXT that SpecAnyContext configures
MaxReads == 2       \* read-only handler calls of the reading workload
MaxWords == 3       \* words of a text given to detect_lang_safe under SpecDetect

VARIABLES
    MAX_CONTEXT,  \* main.py:28, int(os.getenv("MAX_CONTEXT", "20"))
    chats,        \* Redis string keys user:{uid}:chats: key -> the decoded chat list
    lang,         \* Redis string keys user:{uid}:lang: key -> "hi" | "en" | NoLang
    history,      \* Redis list keys chat:{uid}:{cid}:history: key -> Seq of JSON messages
    req,          \* one record per send-message invocation (locals and position)
    log,          \* history variable: every value ever RPUSHed, by key
    created,      \* history variable: every id create_chat_for_user returned, by uid
    given,        \* history variable: the title argument of each of those calls, by uid
    quota,        \* what the clients and the provider still do in this behaviour
    view,         \* what the latest GET /chat/{cid} or GET /api/chats returned
    probe         \* one call of detect_lang_safe: its text, detect()'s outcome, its result

vars ==
    <<MAX_CONTEXT, chats, lang, history, req, log, created, given, quota, view,
      probe>>

\* ------------------------------------------------------------------ text
Whitespace == {" ", "\n"}

RECURSIVE LStrip(_)
LStrip(s) ==
    IF s = <<>> THEN <<>>
    ELSE IF Head(s) \in Whitespace THEN LStrip(Tail(s)) ELSE s

RECURSIVE RStrip(_)
RStrip(s) ==
    IF s = <<>> THEN <<>>
    ELSE IF s[Len(s)] \in Whitespace THEN RStrip(SubSeq(s, 1, Len(s) - 1)) ELSE s

StripNone(s) == s

\* str.strip()
Strip(s) == RStrip(LStrip(s))

\* re.sub(r"\s+", " ", s): every maximal run of whitespace becomes one space
RECURSIVE ReSubWs(_)
ReSubWs(s) ==
    IF s = <<>> THEN <<>>
    ELSE IF Head(s) \in Whitespace
         THEN <<" ">> \o ReSubWs(LStrip(s))
         ELSE <<Head(s)>> \o ReSubWs(Tail(s))

NormalizeNoStrip(collected) == ReSubWs(collected)

\* main.py:206
Normalize(collected) == Strip(ReSubWs(collected))

RECURSIVE Concat(_)
Concat(ss) == IF ss = <<>> THEN <<>> ELSE Head(ss) \o Concat(Tail(ss))

\* ------------------------------------------------------------ identifiers
\* "uid" values a client names: any string, the key separator included
Users == {<<"u">>, <<"u", ":", "x">>}

\* str(uuid.uuid4()): 36 characters, hyphens at 9, 14, 19, 24, version nibble at 15
UuidOf(d) ==
    [i \in 1..36 |->
        IF i \in {9, 14, 19, 24} THEN "-"
        ELSE IF i = 15 THEN "4"
        ELSE IF i = 8 THEN d
        ELSE IF i = 36 THEN "f"
        ELSE "0"]

UuidSpace == {UuidOf("a"), UuidOf("b")}

\* what uuid.uuid4() may return where a call is made; where none is made
\* (unused) the value is immaterial
UuidDraws(unused) == IF unused THEN {UuidOf("a")} ELSE UuidSpace

\* str(uuid.uuid4())[:8]
ShortId(uuid) == SubSeq(uuid, 1, 8)

Cids == {ShortId(x) : x \in UuidSpace}

\* Python's None: a JSON null, a key the body lacks, an argument left out
None == <<"None">>

TruthyUnlessNone(v) == v # None

\* bool(v) of a text or None, as `not cid` and `title or ...` take it
Truthy(v) == v \notin {None, <<>>}

\* "title" values a client posts
Titles == {None, <<>>, <<"T">>}

\* chat ids a client names in a path or a body: the ids the server hands out,
\* and a string of the client's own making
NamedCids == Cids \cup {<<"x", ":">> \o ShortId(UuidOf("a"))}

\* "chat_id" values a client posts
PostedCids == {None, <<>>} \cup NamedCids

\* --------------------------------------------------------------- Redis keys
\* main.py:43-44, f"user:{uid}:chats"
user_chats_key(uid) ==
    <<"u", "s", "e", "r", ":">> \o uid \o <<":", "c", "h", "a", "t", "s">>

\* main.py:46-47, f"chat:{uid}:{cid}:history"
chat_history_key(uid, cid) ==
    <<"c", "h", "a", "t", ":">> \o uid \o <<":">> \o cid
        \o <<":", "h", "i", "s", "t", "o", "r", "y">>

\* main.py:49-50, f"user:{uid}:lang"
user_lang_key(uid) ==
    <<"u", "s", "e", "r", ":">> \o uid \o <<":", "l", "a", "n", "g">>

ChatKeys == {user_chats_key(u) : u \in Users}

LangKeys == {user_lang_key(u) : u \in Users}

\* the history keys a request can form
HistKeys == {chat_history_key(u, c) : u \in Users, c \in NamedCids \cup {<<>>}}

\* --------------------------------------------------------- Redis strings
\* SET key value
r_set(store, key, value) == [store EXCEPT ![key] = value]

\* ---------------------------------------------------------- Redis lists
RPush(list, v) == Append(list, v)

\* Redis index normalisation: a negative index counts from the end
RedisStart(n, start) ==
    IF start < 0 THEN (IF n + start < 0 THEN 0 ELSE n + start) ELSE start

RedisStop(n, stop) ==
    LET e == IF stop < 0 THEN n + stop ELSE stop
    IN  IF e >= n THEN n - 1 ELSE e

\* LRANGE key start stop (0-based, inclusive)
LRange(list, start, stop) ==
    LET n == Len(list)
        s == RedisStart(n, start)
        e == RedisStop(n, stop)
    IN  IF s > e \/ s >= n THEN <<>> ELSE SubSeq(list, s + 1, e + 1)

\* LTRIM key start stop keeps exactly the range LRANGE would return
LTrim(list, start, stop) == LRange(list, start, stop)

\* ---------------------------------------------------------------- JSON
\* json.dumps / json.loads of a message dict (role, content)
JsonDumps(msg) == <<"json", msg.role, msg.content>>

JsonLoads(x) == [role |-> x[2], content |-> x[3]]

\* -------------------------------------------------------- session store
NoLang == "nil"

\* str(n) for n >= 0
DigitChar == <<"0", "1", "2", "3", "4", "5", "6", "7", "8", "9">>

RECURSIVE IntToStr(_)
IntToStr(n) ==
    IF n < 10 THEN <<DigitChar[n + 1]>>
    ELSE IntToStr(n \div 10) \o <<DigitChar[(n % 10) + 1]>>

DefaultTitleFromZero(n) == <<"C", "h", "a", "t", " ">> \o IntToStr(n)

\* f"Chat {len(chatlist) + 1}"
DefaultTitle(n) == <<"C", "h", "a", "t", " ">> \o IntToStr(n + 1)

CreatedListFresh(chatlist, cid, title) ==
    <<[chat_id |-> cid,
       title |-> IF Truthy(title) THEN title ELSE DefaultTitle(Len(chatlist))]>>

\* main.py:77-79: the chat list after create_chat_for_user(uid, title) drew cid
CreatedList(chatlist, cid, title) ==
    Append(chatlist,
           [chat_id |-> cid,
            title |-> IF Truthy(title) THEN title ELSE DefaultTitle(Len(chatlist))])

\* main.py:83-84
list_user_chats(uid) == chats[user_chats_key(uid)]

TrimmedHead(list) == LTrim(list, 0, MAX_CONTEXT - 1)

\* main.py:90
Trimmed(list) == LTrim(list, -MAX_CONTEXT, -1)

AppendedList(list, role, content) ==
    Trimmed(RPush(list, JsonDumps([role |-> role, content |-> content])))

\* main.py:92-95
get_chat_history(uid, cid) ==
    LET items == LRange(history[chat_history_key(uid, cid)], 0, -1)
    IN  [k \in 1..Len(items) |-> JsonLoads(items[k])]

\* ------------------------------------------------------ language detector
UpperCase == <<"A", "B", "C", "D", "E", "F", "G", "H", "I", "J", "K", "L", "M",
               "N", "O", "P", "Q", "R", "S", "T", "U", "V", "W", "X", "Y", "Z">>

LowerCase == <<"a", "b", "c", "d", "e", "f", "g", "h", "i", "j", "k", "l", "m",
               "n", "o", "p", "q", "r", "s", "t", "u", "v", "w", "x", "y", "z">>

UpperSet == {UpperCase[k] : k \in 1..26}

LowerOf == [c \in UpperSet |-> LowerCase[CHOOSE k \in 1..26 : UpperCase[k] = c]]

LowerChar(c) == IF c \in UpperSet THEN LowerOf[c] ELSE c

LowerKept(s) == s

\* str.lower()
Lower(s) == [k \in 1..Len(s) |-> LowerChar(s[k])]

\* the character class [a-zA-Z']
WordChars == UpperSet \cup {LowerCase[k] : k \in 1..26} \cup {"'"}

WordChar(c) == c \in WordChars

\* the longest prefix of s matching [a-zA-Z']*
RECURSIVE WordPrefix(_)
WordPrefix(s) ==
    IF s = <<>> \/ ~WordChar(Head(s)) THEN <<>>
    ELSE <<Head(s)>> \o WordPrefix(Tail(s))

\* re.findall(r"[a-zA-Z']+", s): the maximal runs, left to right
RECURSIVE FindWords(_)
FindWords(s) ==
    IF s = <<>> THEN <<>>
    ELSE IF ~WordChar(Head(s)) THEN FindWords(Tail(s))
    ELSE LET w == WordPrefix(s)
         IN  <<w>> \o FindWords(SubSeq(s, Len(w) + 1, Len(s)))

\* main.py:59-63
hindi_keywords ==
    {
     <<"k", "y", "a">>, <<"k", "a", "i", "s", "e">>, <<"h", "a", "i">>,
     <<"h", "a", "i", "n">>, <<"n", "a", "h", "i">>, <<"h", "a", "a", "n">>,
     <<"t", "u", "m">>, <<"m", "e", "r", "a">>, <<"t", "e", "r", "a">>,
     <<"k", "y", "u">>, <<"k", "y", "o", "n">>, <<"b", "a", "t", "a", "o">>,
     <<"p", "y", "a", "a", "r">>, <<"y", "a", "a", "r">>, <<"a", "c", "h", "a">>,
     <<"t", "h", "e", "e", "k">>, <<"s", "a", "m", "j", "h", "a">>, <<"k", "a", "r">>,
     <<"k", "u", "c", "h">>, <<"k", "a", "l">>, <<"a", "b", "h", "i">>,
     <<"c", "h", "a", "l", "o">>, <<"b", "o", "l", "o">>
    }

\* main.py:66
english_keywords ==
    {
     <<"i">>, <<"y", "o", "u">>, <<"t", "h", "e">>,
     <<"i", "s">>, <<"a", "r", "e">>, <<"l", "o", "v", "e">>,
     <<"g", "o", "o", "d">>, <<"o", "k">>, <<"w", "h", "a", "t">>,
     <<"h", "o", "w">>, <<"d", "o">>
    }

HitsAny(words, lexicon) ==
    IF \E k \in 1..Len(words) : words[k] \in lexicon THEN 1 ELSE 0

\* sum(1 for w in words if w in lexicon)
RECURSIVE Hits(_, _)
Hits(words, lexicon) ==
    IF words = <<>> THEN 0
    ELSE (IF Head(words) \in lexicon THEN 1 ELSE 0) + Hits(Tail(words), lexicon)

\* code.startswith(prefix)
StartsWith(code, prefix) ==
    Len(code) >= Len(prefix) /\ SubSeq(code, 1, Len(prefix)) = prefix

\* what langdetect's detect(text) does: a language code, or it raises
DetectRaises == <<"!">>
DetectOutcomes == {<<"h", "i">>, <<"e", "n">>, <<"h", "r">>, DetectRaises}

detect_lang_unguarded(text, stat) ==
    LET words == FindWords(Lower(text))
        hindi_hits == Hits(words, hindi_keywords)
        eng_hits == Hits(words, english_keywords)
    IN  IF stat = DetectRaises THEN "raised"
        ELSE IF StartsWith(stat, <<"h", "i">>) \/ hindi_hits >= 2 THEN "hi"
        ELSE IF hindi_hits # 0 /\ eng_hits # 0 THEN "hi"
        ELSE "en"

\* main.py:53-73; stat is the outcome of detect(text)
detect_lang_safe(text, stat) ==
    LET code == IF stat = DetectRaises THEN <<"e", "n">> ELSE stat
        words == FindWords(Lower(text))
        hindi_hits == Hits(words, hindi_keywords)
        eng_hits == Hits(words, english_keywords)
    IN  IF StartsWith(code, <<"h", "i">>) \/ hindi_hits >= 2 THEN "hi"
        ELSE IF hindi_hits # 0 /\ eng_hits # 0 THEN "hi"
        ELSE "en"

\* ------------------------------------------------------------ the provider
\* one streamed chunk: whether it has a .text attribute, that text, and str(chunk)
ChunkRepr == <<"<", "r", ">">>
Chunks ==
    {[has_text |-> TRUE,  text |-> <<"H", "i", " ">>, repr |-> ChunkRepr],
     [has_text |-> TRUE,  text |-> <<"\n">>,          repr |-> ChunkRepr],
     [has_text |-> TRUE,  text |-> <<>>,              repr |-> ChunkRepr],
     [has_text |-> FALSE, text |-> <<>>,              repr |-> ChunkRepr]}

\* main.py:195-198
Piece(chunk) ==
    IF chunk.has_text /\ chunk.text # <<>> THEN chunk.text ELSE chunk.repr

\* str(err) of what the provider raises mid-stream
Errors == {<<"b", "o", "o", "m">>}

\* main.py:204, f"\n[Error: {err}]"
Diagnostic(err) ==
    <<"\n", "[", "E", "r", "r", "o", "r", ":", " ">> \o err \o <<"]">>

\* main.py:186 (each word is one element; the blanks are single spaces)
FALLBACK ==
    <<"Sorry,", " ", "thoda", " ", "issue", " ", "ho", " ", "gaya,", " ",
      "try", " ", "again">>

AccumulateLast(collected, piece) == piece

\* main.py:199
Accumulate(collected, piece) == collected \o piece

\* main.py:206-208: what the finally block appends, if anything
Commits(collected) ==
    LET final == Normalize(collected)
    IN  IF final # <<>> THEN <<final>> ELSE <<>>

\* --------------------------------------------------------------- requests
\* the send-message invocations of one behaviour: at most two, overlapping
Reqs == 1..2

\* "message" values a client posts
RawMsgs ==
    {<<>>,
     <<" ", "\n">>,
     <<"o", "k", " ">>,
     <<" ", "K", "y", "a", " ", "k", "a", "r">>}

NoPrompt == [user_lang |-> NoLang, context |-> <<>>, user_msg |-> <<>>]

\* what a handler holds only up to the provider call: the "chat_id" the body
\* carried, the outcome of detect(), detected and prompt
NoTransient ==
    [chat_id |-> None, stat |-> <<>>, detected |-> NoLang, prompt |-> NoPrompt]

\* pc, uid, cid, user_msg, till_call and collected are the handler's position
\* and locals.  The rest records what happened: raw is the posted "message",
\* provided the chunks the provider yielded, delivered the fragments the
\* response body yielded, commits the assistant contents this call appended,
\* ran how often its commit-or-fallback code (main.py:186-187, 205-208) ran.
IdleReq ==
    [pc |-> "Idle", uid |-> <<>>, cid |-> <<>>, user_msg |-> <<>>,
     till_call |-> NoTransient, collected |-> <<>>, raw |-> <<>>,
     provided |-> <<>>, delivered |-> <<>>, commits |-> <<>>, ran |-> 0]

\* a handler is between main.py:151 and main.py:188: nothing else runs meanwhile
Busy == \E i \in Reqs : req[i].pc = "Invoking"

EmptyStore(S) == [k \in S |-> <<>>]

InitStore ==
    /\ chats = EmptyStore(ChatKeys)
    /\ lang = [k \in LangKeys |-> NoLang]
    /\ history = EmptyStore(HistKeys)
    /\ req = [i \in Reqs |-> IdleReq]
    /\ log = EmptyStore(HistKeys)
    /\ created = EmptyStore(Users)
    /\ given = EmptyStore(Users)

\* no read handler has answered yet
NoView ==
    [op |-> "none", uid |-> <<>>, cid |-> <<>>, chats |-> <<>>, history |-> <<>>,
     appends |-> 0]

\* detect_lang_safe is not being called on its own
NoProbe == [text |-> <<>>, stat |-> <<>>, out |-> NoLang]

\* The workloads explored: one request with a long stream, two overlapping
\* requests, one request among many chat creations, one request among reads.
\* send counts api_send calls, chunk the chunks providers yield, create the
\* create_chat_for_user calls, read the calls of the read-only handlers.
Workloads ==
    {[send |-> 1, chunk |-> MaxChunks, create |-> 0, read |-> 0],
     [send |-> 2, chunk |-> 1, create |-> 0, read |-> 0],
     [send |-> 1, chunk |-> 0, create |-> MaxChats, read |-> 0],
     [send |-> 1, chunk |-> 0, create |-> 0, read |-> MaxReads]}

Init ==
    /\ MAX_CONTEXT = ContextDefault
    /\ InitStore
    /\ quota \in Workloads
    /\ view = NoView
    /\ probe = NoProbe

\* any size the environment variable may set, within the bound
InitAnyContext ==
    /\ MAX_CONTEXT \in 0..ContextMax
    /\ InitStore
    /\ quota \in Workloads
    /\ view = NoView
    /\ probe = NoProbe

\* main.py:75-81 as a step: the store after create_chat_for_user(uid, title)
create_chat_for_user(uid, title, uuid) ==
    /\ quota.create > 0
    /\ chats' = r_set(chats, user_chats_key(uid),
                       CreatedList(list_user_chats(uid), ShortId(uuid), title))
    /\ created' = [created EXCEPT ![uid] = Append(@, ShortId(uuid))]
    /\ given' = [given EXCEPT ![uid] = Append(@, title)]

\* main.py:86-90 as a step
append_message(uid, cid, role, content) ==
    LET key == chat_history_key(uid, cid)
    IN  /\ history' = [history EXCEPT ![key] = AppendedList(@, role, content)]
        /\ log' = [log EXCEPT ![key] =
                      Append(@, JsonDumps([role |-> role, content |-> content]))]

\* POST /api/new_chat, main.py:124-130
api_new_chat ==
    /\ ~Busy
    /\ quota.create > 0
    /\ \E uid \in Users, title \in Titles, uuid \in UuidSpace :
          create_chat_for_user(uid, title, uuid)
    /\ quota' = [quota EXCEPT !.create = @ - 1]
    /\ UNCHANGED <<MAX_CONTEXT, view, probe, lang, history, req, log>>

\* GET /, main.py:98-105
index ==
    /\ ~Busy
    /\ \E uid \in Users :
       IF list_user_chats(uid) = <<>>
       THEN /\ \E uuid \in UuidSpace : create_chat_for_user(uid, None, uuid)
            /\ quota' = [quota EXCEPT !.create = @ - 1]
       ELSE UNCHANGED <<chats, created, given, quota>>
    /\ UNCHANGED <<MAX_CONTEXT, view, probe, lang, history, req, log>>

BuildPromptNoLang(hist, user_lang, user_msg) ==
    [user_lang |-> "en",
     context |-> [k \in 1..Len(hist) |-> <<hist[k].role, hist[k].content>>],
     user_msg |-> user_msg]

open_chat_consuming ==
    /\ ~Busy
    /\ quota.read > 0
    /\ \E uid \in Users, cid \in NamedCids :
          /\ view' = [op |-> "open_chat", uid |-> uid, cid |-> cid,
                      chats |-> list_user_chats(uid),
                      history |-> get_chat_history(uid, cid),
                      appends |-> Len(log[chat_history_key(uid, cid)])]
          /\ history' = [history EXCEPT ![chat_history_key(uid, cid)] = <<>>]
    /\ quota' = [quota EXCEPT !.read = @ - 1]
    /\ UNCHANGED <<MAX_CONTEXT, probe, chats, lang, req, log, created, given>>

\* GET /chat/{cid}, main.py:107-121; appends counts the RPUSHes the chat's key
\* had seen when the history was read
open_chat ==
    /\ ~Busy
    /\ quota.read > 0
    /\ \E uid \in Users, cid \in NamedCids :
          view' = [op |-> "open_chat", uid |-> uid, cid |-> cid,
                   chats |-> list_user_chats(uid),
                   history |-> get_chat_history(uid, cid),
                   appends |-> Len(log[chat_history_key(uid, cid)])]
    /\ quota' = [quota EXCEPT !.read = @ - 1]
    /\ UNCHANGED <<MAX_CONTEXT, probe, chats, lang, history, req, log, created,
                   given>>

\* GET /api/chats, main.py:132-134
api_chats ==
    /\ ~Busy
    /\ quota.read > 0
    /\ \E uid \in Users :
          view' = [op |-> "api_chats", uid |-> uid, cid |-> <<>>,
                   chats |-> list_user_chats(uid), history |-> <<>>,
                   appends |-> 0]
    /\ quota' = [quota EXCEPT !.read = @ - 1]
    /\ UNCHANGED <<MAX_CONTEXT, probe, chats, lang, history, req, log, created,
                   given>>

\* main.py:158-179: the values the prompt f-string interpolates
BuildPrompt(hist, user_lang, user_msg) ==
    [user_lang |-> IF user_lang = NoLang THEN "en" ELSE user_lang,
     context |-> [k \in 1..Len(hist) |-> <<hist[k].role, hist[k].content>>],
     user_msg |-> user_msg]

\* POST /api/send, main.py:142-179, for one request body and one outcome of
\* detect() and uuid4(): up to the provider call
SendBody(i, uid, cid_in, raw, stat, uuid) ==
    LET user_msg == Strip(raw)
        cid == IF ~Truthy(cid_in) THEN ShortId(uuid) ELSE cid_in
        key == chat_history_key(uid, cid)
        detected == detect_lang_safe(user_msg, stat)
    IN  /\ IF user_msg = <<>>
           THEN /\ req' = [req EXCEPT ![i].pc = "Rejected", ![i].raw = raw]
                /\ quota' = [quota EXCEPT !.send = @ - 1]
                /\ UNCHANGED <<chats, created, given, history, log, lang>>
           ELSE /\ IF ~Truthy(cid_in)
                   THEN /\ create_chat_for_user(uid, None, uuid)
                        /\ quota' = [quota EXCEPT !.send = @ - 1, !.create = @ - 1]
                   ELSE /\ quota' = [quota EXCEPT !.send = @ - 1]
                        /\ UNCHANGED <<chats, created, given>>
                /\ append_message(uid, cid, "user", user_msg)
                /\ lang' = r_set(lang, user_lang_key(uid), detected)
                /\ req' = [req EXCEPT ![i] =
                      [@ EXCEPT !.pc = "Invoking", !.uid = uid, !.cid = cid,
                                !.user_msg = user_msg, !.raw = raw,
                                !.till_call =
                                    [chat_id |-> cid_in,
                                     stat |-> stat,
                                     detected |-> detected,
                                     prompt |->
                                         BuildPrompt(
                                             [k \in 1..Len(history'[key]) |->
                                                 JsonLoads(history'[key][k])],
                                             lang'[user_lang_key(uid)],
                                             user_msg)]]]
        /\ UNCHANGED <<MAX_CONTEXT, view, probe>>

\* POST /api/send, main.py:136-179
api_send(i) ==
    /\ ~Busy
    /\ req[i].pc = "Idle"
    /\ i > 1 => req[i - 1].pc # "Idle"
    /\ quota.send > 0
    /\ \E uid \in Users, cid_in \in PostedCids, raw \in RawMsgs,
          stat \in DetectOutcomes :
          \E uuid \in UuidDraws(Truthy(cid_in)) :
              SendBody(i, uid, cid_in, raw, stat, uuid)

InvokeNoRecord(i) ==
    /\ req[i].pc = "Invoking"
    /\ \E ok \in BOOLEAN :
          req' = [req EXCEPT ![i].pc = IF ok THEN "Streaming" ELSE "Fallback",
                             ![i].till_call = NoTransient,
                             ![i].ran = IF ok THEN @ ELSE @ + 1]
    /\ UNCHANGED <<MAX_CONTEXT, view, probe, chats, lang, history, log, created, given, quota>>

\* main.py:182-188 and 210: the provider call, and the fallback when it throws
Invoke(i) ==
    /\ req[i].pc = "Invoking"
    /\ \E ok \in BOOLEAN :
       IF ok
       THEN /\ req' = [req EXCEPT ![i].pc = "Streaming", ![i].till_call = NoTransient]
            /\ UNCHANGED <<history, log>>
       ELSE /\ append_message(req[i].uid, req[i].cid, "assistant", FALLBACK)
            /\ req' = [req EXCEPT ![i].pc = "Fallback", ![i].till_call = NoTransient,
                                  ![i].commits = Append(@, FALLBACK),
                                  ![i].ran = @ + 1]
    /\ UNCHANGED <<MAX_CONTEXT, view, probe, chats, lang, created, given, quota>>

\* the response body of main.py:188, iter([fallback]), reaches the client
FallbackYield(i) ==
    /\ ~Busy
    /\ req[i].pc = "Fallback"
    /\ req' = [req EXCEPT ![i].pc = "FallbackSent",
                          ![i].delivered = Append(@, FALLBACK)]
    /\ UNCHANGED <<MAX_CONTEXT, view, probe, chats, lang, history, log, created, given, quota>>

StreamChunkCommitting(i) ==
    /\ ~Busy
    /\ req[i].pc = "Streaming"
    /\ quota.chunk > 0
    /\ \E chunk \in Chunks :
          /\ append_message(req[i].uid, req[i].cid, "assistant", Piece(chunk))
          /\ req' = [req EXCEPT ![i].collected = Accumulate(@, Piece(chunk)),
                                ![i].provided = Append(@, chunk),
                                ![i].delivered = Append(@, Piece(chunk)),
                                ![i].commits = Append(@, Piece(chunk))]
    /\ quota' = [quota EXCEPT !.chunk = @ - 1]
    /\ UNCHANGED <<MAX_CONTEXT, view, probe, chats, lang, created, given>>

\* main.py:193-202: one iteration of the loop, up to the next suspension
StreamChunk(i) ==
    /\ ~Busy
    /\ req[i].pc = "Streaming"
    /\ quota.chunk > 0
    /\ \E chunk \in Chunks :
          req' = [req EXCEPT ![i].collected = Accumulate(@, Piece(chunk)),
                             ![i].provided = Append(@, chunk),
                             ![i].delivered = Append(@, Piece(chunk))]
    /\ quota' = [quota EXCEPT !.chunk = @ - 1]
    /\ UNCHANGED <<MAX_CONTEXT, view, probe, chats, lang, history, log, created, given>>

\* main.py:205-208: the finally block of event_stream, leaving it at position pc
Finally(i, pc) ==
    LET out == Commits(req[i].collected)
    IN  /\ IF out # <<>>
           THEN append_message(req[i].uid, req[i].cid, "assistant", out[1])
           ELSE UNCHANGED <<history, log>>
        /\ req' = [req EXCEPT ![i].pc = pc, ![i].commits = @ \o out,
                              ![i].ran = @ + 1]

\* main.py:193, 205-208: the provider signals end-of-response
StreamEnd(i) ==
    /\ ~Busy
    /\ req[i].pc = "Streaming"
    /\ Finally(i, "Completed")
    /\ UNCHANGED <<MAX_CONTEXT, view, probe, chats, lang, created, given, quota>>

StreamRaiseCollecting(i) ==
    /\ ~Busy
    /\ req[i].pc = "Streaming"
    /\ \E err \in Errors :
          req' = [req EXCEPT ![i].pc = "Diag",
                             ![i].collected = Accumulate(@, Diagnostic(err)),
                             ![i].delivered = Append(@, Diagnostic(err))]
    /\ UNCHANGED <<MAX_CONTEXT, view, probe, chats, lang, history, log, created, given, quota>>

\* main.py:203-204: the provider raises; the diagnostic is yielded
StreamRaise(i) ==
    /\ ~Busy
    /\ req[i].pc = "Streaming"
    /\ \E err \in Errors :
          req' = [req EXCEPT ![i].pc = "Diag",
                             ![i].delivered = Append(@, Diagnostic(err))]
    /\ UNCHANGED <<MAX_CONTEXT, view, probe, chats, lang, history, log, created, given, quota>>

\* main.py:205-208 after the diagnostic was taken
DiagResume(i) ==
    /\ ~Busy
    /\ req[i].pc = "Diag"
    /\ Finally(i, "Failed")
    /\ UNCHANGED <<MAX_CONTEXT, view, probe, chats, lang, created, given, quota>>

\* the generator has run up to a yield: until the body is first pulled, no
\* line of event_stream has run
Started(i) == req[i].pc = "Diag" \/ req[i].provided # <<>>

ClientCloseDropping(i) ==
    /\ ~Busy
    /\ req[i].pc \in {"Streaming", "Diag", "Fallback"}
    /\ req' = [req EXCEPT ![i].pc = "Closed"]
    /\ UNCHANGED <<MAX_CONTEXT, view, probe, chats, lang, history, log, created,
                   given, quota>>

\* The client closes the response.  A generator suspended at a yield or at the
\* sleep is closed there and only its finally block runs (main.py:205-208); one
\* that never started, and the iterator of main.py:188, are just dropped.
ClientClose(i) ==
    /\ ~Busy
    /\ req[i].pc \in {"Streaming", "Diag", "Fallback"}
    /\ IF req[i].pc # "Fallback" /\ Started(i)
       THEN Finally(i, "Closed")
       ELSE /\ req' = [req EXCEPT ![i].pc = "Closed"]
            /\ UNCHANGED <<history, log>>
    /\ UNCHANGED <<MAX_CONTEXT, view, probe, chats, lang, created, given, quota>>

Next ==
    \/ api_new_chat
    \/ index
    \/ open_chat
    \/ api_chats
    \/ \E i \in Reqs : api_send(i)
    \/ \E i \in Reqs : Invoke(i)
    \/ \E i \in Reqs : FallbackYield(i)
    \/ \E i \in Reqs : StreamChunk(i)
    \/ \E i \in Reqs : StreamEnd(i)
    \/ \E i \in Reqs : StreamRaise(i)
    \/ \E i \in Reqs : DiagResume(i)
    \/ \E i \in Reqs : ClientClose(i)

Spec == Init /\ [][Next]_vars

SpecAnyContext == InitAnyContext /\ [][Next]_vars

\* ------------------------------------------- the detector taken on its own
\* the words and the separators texts are made of: lexicon words in either
\* case, a word of neither lexicon; a blank, and the apostrophe, which the
\* regex takes for part of a word
ProbeWords == {<<"k", "y", "a">>, <<"K", "a", "r">>, <<"o", "k">>, <<"I">>, <<"x">>}
ProbeSeparators == {<<" ">>, <<"'">>}

\* every text of at most n words, each followed by a separator
RECURSIVE ProbeTexts(_)
ProbeTexts(n) ==
    IF n = 0 THEN {<<>>}
    ELSE LET shorter == ProbeTexts(n - 1)
         IN  shorter \cup {t \o w \o p :
                               t \in shorter, w \in ProbeWords, p \in ProbeSeparators}

InitDetect ==
    /\ MAX_CONTEXT = ContextDefault
    /\ InitStore
    /\ quota = [send |-> 0, chunk |-> 0, create |-> 0, read |-> 0]
    /\ view = NoView
    /\ probe \in [text : ProbeTexts(MaxWords), stat : DetectOutcomes, out : {NoLang}]

\* the call detect_lang_safe(text), main.py:53-73
Detect ==
    /\ probe.out = NoLang
    /\ probe' = [probe EXCEPT !.out = detect_lang_safe(probe.text, probe.stat)]
    /\ UNCHANGED <<MAX_CONTEXT, chats, lang, history, req, log, created, given,
                   quota, view>>

NextDetect == Detect

SpecDetect == InitDetect /\ [][NextDetect]_vars

\* ================================================================ claims
Decoded(items) == [k \in 1..Len(items) |-> JsonLoads(items[k])]

LastOf(items, n) ==
    IF Len(items) > n THEN SubSeq(items, Len(items) - n + 1, Len(items)) ELSE items

\* C1 (as stated): whatever MAX_CONTEXT is set to, once an append on a chat
\* has completed, get_chat_history of that chat has at most MAX_CONTEXT
\* messages.
C1_BoundAnyContext ==
    \A u \in Users, c \in Cids :
        log[chat_history_key(u, c)] # <<>>
            => Len(get_chat_history(u, c)) <= MAX_CONTEXT

\* C2: after appends m1..mK on one chat, get_chat_history returns the last
\* MAX_CONTEXT of them when K > MAX_CONTEXT, and all K otherwise, oldest first
\* in append order.
C2_Fifo ==
    \A u \in Users, c \in Cids :
        get_chat_history(u, c)
            = LastOf(Decoded(log[chat_history_key(u, c)]), MAX_CONTEXT)

C2_Witness ==
    \E u \in Users, c \in Cids :
        LET all == log[chat_history_key(u, c)]
        IN  /\ Len(all) > MAX_CONTEXT
            /\ Len(get_chat_history(u, c)) = MAX_CONTEXT
            /\ all[1] # all[Len(all)]

\* The claims' own reading of "whitespace-normalized": the words of the text,
\* joined by single spaces.
RECURSIVE WordsOf(_)
WordsOf(s) ==
    IF s = <<>> THEN <<>>
    ELSE IF Head(s) \in Whitespace THEN WordsOf(Tail(s))
    ELSE LET n == CHOOSE k \in 1..Len(s) :
                      /\ \A j \in 1..k : s[j] \notin Whitespace
                      /\ k = Len(s) \/ s[k + 1] \in Whitespace
         IN  <<SubSeq(s, 1, n)>> \o WordsOf(SubSeq(s, n + 1, Len(s)))

RECURSIVE JoinWords(_)
JoinWords(ws) ==
    IF ws = <<>> THEN <<>>
    ELSE IF Len(ws) = 1 THEN ws[1]
    ELSE ws[1] \o <<" ">> \o JoinWords(Tail(ws))

Collapsed(s) == JoinWords(WordsOf(s))

\* the assistant message a call persisted, <<>> when it persisted none
Persisted(i) == IF req[i].commits = <<>> THEN <<>> ELSE req[i].commits[1]

\* every content a call committed was appended to its chat as role assistant
InLog(i) ==
    \A k \in 1..Len(req[i].commits) :
        \E j \in 1..Len(log[chat_history_key(req[i].uid, req[i].cid)]) :
            log[chat_history_key(req[i].uid, req[i].cid)][j]
                = JsonDumps([role |-> "assistant", content |-> req[i].commits[k]])

\* the fragments the code takes from the chunks a provider yielded
Fragments(provided) == [k \in 1..Len(provided) |-> Piece(provided[k])]

\* what a commit of the fragments fs must be: one normalized message, or none
Expected(fs) ==
    IF Collapsed(Concat(fs)) # <<>> THEN <<Collapsed(Concat(fs))>> ELSE <<>>

Terminated == {"Completed", "Failed", "FallbackSent"}

\* C3 (as stated): for every send-message call that has terminated, the
\* assistant message it persisted is the whitespace-normalized concatenation of
\* all fragments delivered to the client.
C3_HistoryIsAllShown ==
    \A i \in Reqs :
        req[i].pc \in Terminated
            => /\ Len(req[i].commits) <= 1
               /\ Persisted(i) = Collapsed(Concat(req[i].delivered))

\* the delivered fragments, the diagnostic of a mid-stream failure excepted
ShownButDiagnostic(i) ==
    IF req[i].pc = "Failed"
    THEN SubSeq(req[i].delivered, 1, Len(req[i].delivered) - 1)
    ELSE req[i].delivered

\* C3 (amended): for every send-message call that has terminated, the assistant
\* message it persisted is the whitespace-normalized concatenation of the
\* fragments delivered to the client other than the diagnostic fragment of a
\* mid-stream failure, which is shown but never persisted.
C3_HistoryIsShownButDiagnostic ==
    \A i \in Reqs :
        req[i].pc \in Terminated
            => /\ Len(req[i].commits) <= 1
               /\ InLog(i)
               /\ Persisted(i) = Collapsed(Concat(ShownButDiagnostic(i)))
               /\ req[i].pc = "Failed"
                      => \E err \in Errors :
                             req[i].delivered[Len(req[i].delivered)] = Diagnostic(err)

C3_Witness ==
    \E i \in Reqs :
        /\ req[i].pc = "Failed"
        /\ Len(req[i].delivered) >= 2
        /\ req[i].commits # <<>>
        /\ req[i].commits[1] # req[i].collected

\* C4 (as stated, for the calls that have run to their end): every accepted
\* send-message call has delivered at least one text fragment to the client.
C4_SomeTextDelivered ==
    \A i \in Reqs : req[i].pc \in Terminated => req[i].delivered # <<>>

\* the state of the spec's streamer machine at each position of the handler:
\* Streaming begins with the provider call (main.py:182), Failed is a provider
\* error before or during the stream.  The spec leaves a client's close
\* undefined; Closed stands outside its machine.
StreamerState(pc) ==
    CASE pc \in {"Idle", "Rejected"} -> "Idle"
      [] pc \in {"Invoking", "Streaming"} -> "Streaming"
      [] pc = "Completed" -> "Completed"
      [] pc = "Closed" -> "Closed"
      [] OTHER -> "Failed"

AtRest == {"Completed", "Failed", "FallbackSent"}

\* C5: an invocation that no client closes moves Idle -> Streaming ->
\* Completed or Failed and by no other edge; its commit-or-fallback code has
\* run exactly once wherever it comes to rest, and where that code is still due
\* (the diagnostic was yielded) the invocation's next step, whichever it is,
\* runs it.  In every invocation that code runs at most once and never in a
\* step that leaves it Streaming, so an invocation appends at most one
\* assistant message and none while still Streaming.
C5_StateMachine ==
    [][\A i \in Reqs :
         LET a == StreamerState(req[i].pc)
             b == StreamerState(req'[i].pc)
         IN  /\ (a # b /\ b # "Closed")
                    => <<a, b>> \in {<<"Idle", "Streaming">>,
                                     <<"Streaming", "Completed">>,
                                     <<"Streaming", "Failed">>}
             /\ a = "Closed" => b = "Closed"
             /\ req'[i].ran <= 1
             /\ req'[i].ran # req[i].ran => b \in {"Completed", "Failed", "Closed"}
             /\ req'[i].pc \in AtRest => req'[i].ran = 1
             /\ Len(req'[i].commits) <= 1
             /\ req'[i].commits # req[i].commits
                    => b # "Streaming" /\ req'[i].ran # req[i].ran
             /\ (a \in {"Completed", "Failed"} /\ req[i].ran = 0
                     /\ req'[i] # req[i])
                    => req'[i].ran = 1]_vars

C5_Witness ==
    \E i \in Reqs :
        /\ req[i].pc = "Failed"
        /\ Len(req[i].provided) >= 1
        /\ Len(req[i].commits) = 1
        /\ req[i].ran = 1

C7_MidStreamFailure ==
    \A i \in Reqs :
        /\ req[i].pc \in {"Diag", "Failed"}
               => \E err \in Errors :
                      req[i].delivered
                          = Fragments(req[i].provided) \o <<Diagnostic(err)>>
        /\ req[i].pc = "Diag" => req[i].commits = <<>>
        /\ req[i].pc = "Failed"
               => /\ req[i].commits = Expected(Fragments(req[i].provided))
                  /\ InLog(i)

C7_Witness ==
    \E i \in Reqs :
        /\ req[i].pc = "Failed"
        /\ Len(req[i].provided) >= 1
        /\ req[i].commits # <<>>

\* C8: when invoking the provider throws, get_chat_history of the chat has, as
\* the handler returns, the fallback text as its most recent message, role
\* assistant, right after the user turn of the same request; the response
\* body yields the fallback text and nothing else.
C8_PreStreamFallback ==
    [][\A i \in Reqs :
         /\ (req[i].pc = "Invoking" /\ req'[i].pc = "Fallback")
                => LET h == get_chat_history(req[i].uid, req[i].cid)'
                   IN  /\ Len(h) >= 2
                       /\ h[Len(h)] = [role |-> "assistant", content |-> FALLBACK]
                       /\ h[Len(h) - 1]
                              = [role |-> "user", content |-> req[i].user_msg]
         /\ req'[i].pc = "Fallback" => req'[i].delivered = <<>>
         /\ req'[i].pc = "FallbackSent" => req'[i].delivered = <<FALLBACK>>]_vars

C8_Witness ==
    \E i \in Reqs :
        LET h == get_chat_history(req[i].uid, req[i].cid)
        IN  /\ req[i].pc = "FallbackSent"
            /\ req[i].delivered = <<FALLBACK>>
            /\ Len(h) >= 2
            /\ h[Len(h)] = [role |-> "assistant", content |-> FALLBACK]

AllBlank(raw) == \A k \in 1..Len(raw) : raw[k] \in Whitespace

\* C9: a send-message call whose message is empty or only whitespace is
\* rejected, and neither then nor later changes the store: no history, no chat
\* list and no language setting is written.
C9_EmptyRejected ==
    [][\A i \in Reqs :
         /\ (req[i].pc = "Idle" /\ req'[i].pc # "Idle" /\ AllBlank(req'[i].raw))
                => /\ req'[i].pc = "Rejected"
                   /\ UNCHANGED <<chats, lang, history, log, created, given>>
         /\ req[i].pc = "Rejected" => req'[i] = req[i]]_vars

C9_Witness ==
    \E i, j \in Reqs :
        /\ req[i].pc = "Rejected"
        /\ req[i].raw # <<>>
        /\ req[j].pc = "Rejected"
        /\ req[j].raw = <<>>

IsPrefix(a, b) == Len(a) <= Len(b) /\ SubSeq(b, 1, Len(a)) = a

ChatIds(chatlist) == [k \in 1..Len(chatlist) |-> chatlist[k].chat_id]

\* C10: a step never removes or reorders a record of a user's chat list, and
\* after it the list holds one record for every identifier
\* create_chat_for_user ever returned for that user, in creation order (none
\* for a user nothing was created for), also while other requests are open.
C10_ChatListGrows ==
    [][\A u \in Users :
         /\ IsPrefix(list_user_chats(u), list_user_chats(u)')
         /\ ChatIds(list_user_chats(u)') = created'[u]]_vars

C10_Witness ==
    \E u \in Users, i \in Reqs :
        /\ Len(created[u]) >= 2
        /\ ChatIds(list_user_chats(u)) = created[u]
        /\ req[i].pc = "Streaming"
        /\ req[i].uid = u

\* C11 (as stated): in every reachable state, no two records of one user's
\* chat list carry the same chat identifier.
C11_UniqueChatIds ==
    \A u \in Users :
        \A j, k \in 1..Len(list_user_chats(u)) :
            list_user_chats(u)[j].chat_id = list_user_chats(u)[k].chat_id => j = k

\* the decimal numeral of n, for the claims: the digit string without a
\* leading zero whose value is n
DigitsInOrder == <<"0", "1", "2", "3", "4", "5", "6", "7", "8", "9">>

Digits == {DigitsInOrder[k] : k \in 1..10}

DigitValue(c) == (CHOOSE k \in 1..10 : DigitsInOrder[k] = c) - 1

NumeralValue(ds) ==
    IF Len(ds) = 1 THEN DigitValue(ds[1])
    ELSE 10 * DigitValue(ds[1]) + DigitValue(ds[2])

Numeral(n) ==
    CHOOSE ds \in {<<a>> : a \in Digits}
                  \cup {<<a, b>> : a \in Digits \ {"0"}, b \in Digits} :
        NumeralValue(ds) = n

ChatTitle(n) == <<"C", "h", "a", "t", " ">> \o Numeral(n)

\* a step in which create_chat_for_user returned for user u: the identifier is
\* 8 characters long, the list is the old one followed by one record with that
\* identifier, and the record's title is the title given, or "Chat {n+1}" for
\* the n chats the user had before when the call is one of those in defaulted
CreateEffect(u, defaulted) ==
    LET old == list_user_chats(u)
        new == list_user_chats(u)'
        cid == created'[u][Len(created'[u])]
        title == given'[u][Len(given'[u])]
    IN  /\ Len(cid) = 8
        /\ new = Append(old, [chat_id |-> cid,
                              title |-> IF title \in defaulted
                                        THEN ChatTitle(Len(old) + 1)
                                        ELSE title])

\* C12 (as stated): create_chat_for_user returns an 8-character identifier and
\* appends a record with it to the user's chat list; the record's title is
\* "Chat {n+1}" when no title is given and the given title otherwise.
C12_TitleGivenOrOrdinal ==
    [][\A u \in Users :
         created'[u] # created[u] => CreateEffect(u, {None})]_vars

\* C12 (amended): create_chat_for_user returns an 8-character identifier and
\* appends a record with it to the user's chat list; the record's title is
\* "Chat {n+1}" when no title or an empty title is given, and the given title
\* otherwise.
C12_TitleNonEmptyOrOrdinal ==
    [][\A u \in Users :
         created'[u] # created[u] => CreateEffect(u, {None, <<>>})]_vars

C12_Witness ==
    \E u \in Users :
        /\ Len(list_user_chats(u)) >= 2
        /\ given[u][1] = <<"T">>
        /\ list_user_chats(u)[1].title = <<"T">>
        /\ given[u][2] = None
        /\ list_user_chats(u)[2].title = <<"C", "h", "a", "t", " ", "2">>
        /\ Len(list_user_chats(u)[2].chat_id) = 8

\* request i is accepted in this step
Accepted(i) == req[i].pc = "Idle" /\ req'[i].pc = "Invoking"

\* C13: a step that accepts a send-message leaves the user's language setting
\* equal to the language detected for that message alone, "hi" or "en",
\* whatever the setting was before, and the language code in the prompt built
\* for the request is that same language; the romanized-Hindi message of the
\* example persists "hi" and puts "hi" in the prompt.  No other step changes a
\* language setting.
C13_LanguageFollowsMessage ==
    [][/\ \A i \in Reqs :
            Accepted(i)
                => LET now == req'[i].till_call
                       d == detect_lang_safe(req'[i].user_msg, now.stat)
                   IN  /\ d \in {"hi", "en"}
                       /\ now.detected = d
                       /\ lang'[user_lang_key(req'[i].uid)] = d
                       /\ now.prompt.user_lang = d
                       /\ now.prompt.user_msg = req'[i].user_msg
                       /\ req'[i].user_msg = <<"K", "y", "a", " ", "k", "a", "r">>
                              => d = "hi"
       /\ \A u \in Users :
            lang'[user_lang_key(u)] # lang[user_lang_key(u)]
                => \E i \in Reqs : Accepted(i) /\ req'[i].uid = u]_vars

\* a second message of a user whose first message set "hi" has set "en"
C13_Witness ==
    /\ req[2].pc = "Invoking"
    /\ req[2].uid = req[1].uid
    /\ req[1].user_msg = <<"K", "y", "a", " ", "k", "a", "r">>
    /\ req[2].till_call.detected = "en"
    /\ lang[user_lang_key(req[2].uid)] = "en"
    /\ req[2].till_call.prompt.user_lang = "en"

\* The claims' own reading of the detector's rule.  A character folded to lower
\* case, the characters tokens are made of, and an occurrence of a lexicon word
\* as a token: a stretch of the text that spells the word in either case and
\* has no letter or apostrophe next to it on either side.
FoldOf ==
    [c \in {UpperCase[k] : k \in 1..26} |->
        LowerCase[CHOOSE k \in 1..26 : UpperCase[k] = c]]

Folded(c) == IF c \in DOMAIN FoldOf THEN FoldOf[c] ELSE c

TokenChars == {LowerCase[k] : k \in 1..26} \cup {"'"}

KeywordLengths == {Len(w) : w \in hindi_keywords \cup english_keywords}

\* where the tokens of the text that belong to the lexicon are: <<p, n>> for a
\* token of n characters that starts at p
Occurrences(text, lexicon) ==
    LET t == [k \in 1..Len(text) |-> Folded(text[k])]
    IN  {o \in (1..Len(t)) \X KeywordLengths :
            LET p == o[1]
                q == o[1] + o[2] - 1
            IN  /\ q <= Len(t)
                /\ p = 1 \/ t[p - 1] \notin TokenChars
                /\ q = Len(t) \/ t[q + 1] \notin TokenChars
                /\ SubSeq(t, p, q) \in lexicon}

\* the lexicon words the text has as tokens
WordsFound(text, lexicon) ==
    {[k \in 1..o[2] |-> Folded(text[o[1] + k - 1])] :
        o \in Occurrences(text, lexicon)}

StatisticalHindi(stat) ==
    stat # DetectRaises /\ Len(stat) >= 2 /\ stat[1] = "h" /\ stat[2] = "i"

\* C14: every call of detect_lang_safe returns "hi" or "en"; it returns "hi"
\* exactly when detect() returned a code that starts with "hi" (a detect() that
\* raised counts as "en"), or at least two tokens of the lowercased text are
\* romanized-Hindi keywords, or at least one is and at least one is an English
\* function word; otherwise "en", in particular for a text without keyword
\* tokens and a code that is not Hindi.
C14_DecisionRule ==
    probe.out # NoLang
        => LET hindi_hits == Cardinality(Occurrences(probe.text, hindi_keywords))
               eng_hits == Cardinality(Occurrences(probe.text, english_keywords))
           IN  /\ probe.out \in {"hi", "en"}
               /\ probe.out = "hi"
                      <=> \/ StatisticalHindi(probe.stat)
                          \/ hindi_hits >= 2
                          \/ hindi_hits > 0 /\ eng_hits > 0
               /\ (hindi_hits = 0 /\ eng_hits = 0 /\ ~StatisticalHindi(probe.stat))
                      => probe.out = "en"

\* detect() raised on a text with one keyword followed by an apostrophe-joined
\* word: the answer is "en"
C14_Witness ==
    /\ probe.out = "en"
    /\ probe.stat = DetectRaises
    /\ probe.text = <<"k", "y", "a", " ", "o", "k", "'", "x", " ">>

\* C15: a text with at least two distinct romanized-Hindi keywords among its
\* tokens gets "hi", whatever detect() returned and whatever else the text
\* holds.
C15_TwoHindiWords ==
    (probe.out # NoLang
        /\ Cardinality(WordsFound(probe.text, hindi_keywords)) >= 2)
        => probe.out = "hi"

C15_Witness ==
    /\ probe.out = "hi"
    /\ probe.stat = <<"e", "n">>
    /\ probe.text = <<"x", " ", "K", "a", "r", " ", "k", "y", "a", " ">>

\* C16: a text with at least one romanized-Hindi keyword and at least one
\* English function word among its tokens gets "hi", also when it has exactly
\* one romanized-Hindi keyword and detect() did not return Hindi.
C16_MixedIsHindi ==
    (probe.out # NoLang
        /\ WordsFound(probe.text, hindi_keywords) # {}
        /\ WordsFound(probe.text, english_keywords) # {})
        => probe.out = "hi"

C16_Witness ==
    /\ probe.out = "hi"
    /\ probe.stat = <<"h", "r">>
    /\ Cardinality(Occurrences(probe.text, hindi_keywords)) = 1
    /\ probe.text = <<"I", " ", "K", "a", "r", " ">>

\* a read-only handler answers in this step
Reads == quota'.read # quota.read

\* C17: a step in which get_chat_history is called (GET /chat/{cid}) changes
\* no chat list, language setting or history and no open request; and when the
\* call before it was for the same user and chat and nothing was appended to
\* that chat's history in between, it returns the same sequence again.
C17_PureRead ==
    [][Reads
          => /\ UNCHANGED <<chats, lang, history, log, created, given, req>>
             /\ (/\ view.op = "open_chat"
                 /\ view'.op = "open_chat"
                 /\ view'.uid = view.uid
                 /\ view'.cid = view.cid
                 /\ view'.appends = view.appends)
                    => view'.history = view.history]_vars

\* all reads were made, the last one of a chat that has a message and an open
\* request
C17_Witness ==
    /\ view.op = "open_chat"
    /\ quota.read = 0
    /\ view.history = get_chat_history(view.uid, view.cid)
    /\ Len(view.history) = 1
    /\ view.history[1].role = "user"
    /\ \E i \in Reqs :
          /\ req[i].pc = "Streaming"
          /\ req[i].uid = view.uid
          /\ req[i].cid = view.cid

\* the step accepts request i, for user u, and creates one chat for u: the
\* chat list grows by one record, whose identifier is the request's chat, and
\* the user turn is the newest message of that chat's history
CreatesChat(i, u) ==
    LET old == list_user_chats(u)
        new == chats'[user_chats_key(u)]
        h == Decoded(history'[chat_history_key(u, req'[i].cid)])
    IN  /\ Len(new) = Len(old) + 1
        /\ IsPrefix(old, new)
        /\ new[Len(new)].chat_id = req'[i].cid
        /\ h # <<>>
        /\ h[Len(h)] = [role |-> "user", content |-> req'[i].user_msg]

\* the step accepts request i, for user u, on the chat it names: the chat list
\* is as it was and the user turn is the newest message of that chat's history
KeepsChats(i, u) ==
    LET h == Decoded(history'[chat_history_key(u, req'[i].cid)])
    IN  /\ chats'[user_chats_key(u)] = list_user_chats(u)
        /\ req'[i].cid = req'[i].till_call.chat_id
        /\ h # <<>>
        /\ h[Len(h)] = [role |-> "user", content |-> req'[i].user_msg]

\* C18 (as stated): an accepted send-message with the chat id omitted creates
\* exactly one new chat for that user and appends the user turn to the new
\* chat's history; one that supplies a chat id leaves the user's chat list
\* unchanged.
C18_CreatesIffOmitted ==
    [][\A i \in Reqs :
         Accepted(i)
             => IF req'[i].till_call.chat_id = None
                THEN CreatesChat(i, req'[i].uid)
                ELSE KeepsChats(i, req'[i].uid)]_vars

\* C18 (amended): an accepted send-message with the chat id omitted, null or
\* empty creates exactly one new chat for that user and appends the user turn
\* to the new chat's history; one that supplies a non-empty chat id leaves the
\* user's chat list unchanged.
C18_CreatesIffNoneOrEmpty ==
    [][\A i \in Reqs :
         Accepted(i)
             => IF req'[i].till_call.chat_id \in {None, <<>>}
                THEN CreatesChat(i, req'[i].uid)
                ELSE KeepsChats(i, req'[i].uid)]_vars

\* a request that left the chat id out was given the second chat of a user
\* who had one
C18_Witness ==
    \E i \in Reqs :
        LET list == list_user_chats(req[i].uid)
        IN  /\ req[i].pc = "Invoking"
            /\ req[i].till_call.chat_id = None
            /\ Len(list) = 2
            /\ list[2].chat_id = req[i].cid
            /\ list[1].chat_id # req[i].cid
            /\ Len(get_chat_history(req[i].uid, req[i].cid)) = 1

\* a request that names user u and chat c acts in this step
ActsOn(u, c) ==
    \E i \in Reqs : req'[i] # req[i] /\ req'[i].uid = u /\ req'[i].cid = c

\* C19 (as stated): a step changes the history of a pair (uid, chat id) of
\* caller-supplied strings only if it is a step of a request that names that
\* user and that chat, so a send-message or an append on one pair leaves the
\* history of every other pair as it was; it changes a user's chat list only
\* in a create_chat_for_user call for that user, and a user's language setting
\* only in accepting a send-message of that user.
C19_KeyIsolation ==
    [][/\ \A u \in Users, c \in NamedCids :
            history'[chat_history_key(u, c)] # history[chat_history_key(u, c)]
                => ActsOn(u, c)
       /\ \A u \in Users :
            /\ chats'[user_chats_key(u)] # chats[user_chats_key(u)]
                   => created'[u] # created[u]
            /\ lang'[user_lang_key(u)] # lang[user_lang_key(u)]
                   => \E i \in Reqs : Accepted(i) /\ req'[i].uid = u]_vars

\* C20: when the client closes the response after j >= 1 fragments were
\* delivered and before the provider has ended or raised, that step reads no
\* further provider fragment and delivers nothing, so the client has exactly
\* the j fragments and no diagnostic; the step commits their concatenation,
\* with whitespace runs collapsed and the ends stripped, as one assistant
\* message on the request's chat when that text is non-empty and nothing
\* otherwise; and a closed request never moves again, so nothing more is read,
\* delivered or committed.
C20_CommitOnEarlyClose ==
    [][\A i \in Reqs :
         /\ (/\ req[i].pc = "Streaming"
             /\ req'[i].pc = "Closed"
             /\ req[i].provided # <<>>)
                => LET key == chat_history_key(req[i].uid, req[i].cid)
                       fs == Fragments(req[i].provided)
                   IN  /\ req'[i].provided = req[i].provided
                       /\ req'[i].delivered = fs
                       /\ req[i].commits = <<>>
                       /\ req'[i].commits = Expected(fs)
                       /\ req'[i].ran = 1
                       /\ IF Expected(fs) = <<>>
                          THEN log'[key] = log[key]
                          ELSE log'[key]
                                   = Append(log[key],
                                            JsonDumps([role |-> "assistant",
                                                       content |-> Expected(fs)[1]]))
         /\ req[i].pc = "Closed" => req'[i] = req[i]]_vars

\* closed after one fragment, with the provider good for more: the fragment was
\* committed, normalized
C20_Witness ==
    \E i \in Reqs :
        /\ req[i].pc = "Closed"
        /\ Len(req[i].provided) = 1
        /\ quota.chunk > 0
        /\ Len(req[i].commits) = 1
        /\ req[i].commits[1] # req[i].collected
        /\ req[i].delivered = <<req[i].collected>>

====
